---- MODULE Spec2Model ----
(***************************************************************************)
(* Whisprly client: the session lifecycle driven by toggle_recording (run  *)
(* on the key listener thread) and process_audio (run on one detached      *)
(* thread per capture), with the AudioRecorder, the tray icon, the tone    *)
(* selection and the 500 ms debounce of the toggle.                        *)
(*                                                                         *)
(* Each thread advances in steps that contain at most one access to the    *)
(* state shared with other threads (status, icon, current_tone).           *)
(*                                                                         *)
(* Time is in milliseconds.  time.time() is the variable clock; it never   *)
(* goes back, and it starts at MinInterval, which stands for "long after   *)
(* the epoch": as in the program, the initial last_toggle_time of 0 never  *)
(* suppresses the first toggle.                                            *)
(*                                                                         *)
(* Spec is the program; GateSpec is the program with every call of         *)
(* toggle_recording recorded in recent_calls; LiveSpec is Spec with the    *)
(* threads scheduled fairly.                                               *)
(*                                                                         *)
(* HotkeySpec, ParseSpec, RecorderSpec, ServerSpec and NotifySpec are the  *)
(* HotkeyManager, parse_hotkey, the AudioRecorder, the server endpoints    *)
(* and notify on their own.  HoldSpec is the key listener calling          *)
(* toggle_recording; TraySpec is the program with the read and the write   *)
(* of update_tray_icon in separate steps; ToneSpec records the tone        *)
(* selected at each thread start; RaceSpec is AudioRecorder.stop() step by *)
(* step against start(); LockSpec takes and releases the two locks in      *)
(* steps of their own.                                                     *)
(***************************************************************************)
EXTENDS Integers, Sequences, FiniteSets, TLC

VARIABLES
    status,            \* AppState.status
    current_tone,      \* AppState.current_tone
    icon,              \* colour of the tray icon (tray_ref["icon"].icon)
    recording,         \* AudioRecorder._recording
    frames,            \* number of blocks in AudioRecorder._frames
    last_toggle_time,  \* last_toggle_time["t"]
    clock,             \* time.time()
    lpc,               \* position of the listener thread inside toggle_recording
    audio_data,        \* local audio_data of toggle_recording (NoAudio outside)
    workers,           \* the process_audio threads started so far, in start order
    l_notice,          \* message of the last notify(...) of the listener thread
    lock,              \* AppState._lock: "free", or the thread that holds it
    stream,            \* number of open input streams (AudioRecorder._stream
                       \* refers to the last one opened, None when 0)
    recent_calls       \* history: the toggle_recording calls of the last
                       \* MinInterval ms, oldest first, each as
                       \* <<time, passed the gate, status it went on to test>>

\* HotkeyManager and the key listener
VARIABLES
    pressed_keys,      \* HotkeyManager._pressed_keys
    callbacks,         \* HotkeyManager._callbacks: key-set -> callback
    tap_callbacks,     \* HotkeyManager._tap_callbacks: key -> callback
    other_key_pressed, \* HotkeyManager._other_key_pressed
    listener,          \* "none" until HotkeyManager.start(), then "running"
    register_calls,    \* history: the hotkey strings of the register calls, in order
    solitary,          \* history: the held key since whose press no other key
                       \* was pressed, or NoKey
    event,             \* history: the last key event handled
    invoked            \* history: the callbacks invoked by the last key event

\* one call of parse_hotkey
VARIABLES
    hotkey_str,        \* argument hotkey_str, as its sequence of tokens
    parts,             \* tokens of the local parts not yet visited by the loop
    keys,              \* local keys
    parse_pc           \* position inside parse_hotkey

\* the AudioRecorder used on its own
VARIABLE
    rec_call           \* history: the last call of a method of the recorder

\* the server, handling one request at a time
VARIABLES
    srv_request,       \* the request being handled
    srv_pc,            \* position inside the endpoint function
    srv_raw_text,      \* local raw_text of the endpoint function
    srv_calls,         \* history: the backends called for this request, in order
    srv_response       \* the response sent for this request

\* notify and its _send threads
VARIABLES
    senders,           \* the _send threads started so far, in start order
    console            \* the messages printed by the fallback of _send

\* the key listener driving the session
VARIABLE
    hold_transitions   \* history: the toggle_recording calls that went on to
                       \* start or to stop since the toggle gesture was last
                       \* incomplete

\* the rest of AppState
VARIABLE
    available_tones    \* AppState.available_tones

\* the tone selection as seen by the worker threads
VARIABLE
    launch_tone        \* history: the value of current_tone when the w-th
                       \* worker thread was started, "none" before

\* AudioRecorder.stop() on one thread while other threads call start()
VARIABLE
    stopper            \* the thread inside stop(): its position, and as
                       \* history the length of the frame list when it cleared
                       \* the flag (captured), whether the list was emptied
                       \* since (restarted), and what the call returned

\* the two locks, taken and released in steps of their own
VARIABLES
    rec_lock,          \* AudioRecorder._lock: "free", or the thread that holds it
    tpc                \* position of each thread of LockThreads in the code
                       \* that takes the locks

\* update_tray_icon, its read of the status and its write of the icon apart
VARIABLE
    color              \* local color of the update_tray_icon call of each
                       \* thread (0: the listener, w: the w-th worker), "none"
                       \* outside the call

session_vars == <<status, current_tone, icon, recording, frames,
                  last_toggle_time, clock, lpc, audio_data, workers, l_notice,
                  lock, stream, recent_calls>>

hotkey_vars == <<pressed_keys, callbacks, tap_callbacks, other_key_pressed,
                 listener, register_calls, solitary, event, invoked>>

parse_vars == <<hotkey_str, parts, keys, parse_pc>>

\* the variables that the steps of one component leave unchanged
server_vars == <<srv_request, srv_pc, srv_raw_text, srv_calls, srv_response>>

notify_vars == <<senders, console>>

extra_vars == <<hold_transitions, color, available_tones, launch_tone,
                stopper, rec_lock, tpc>>

non_session_vars == <<hotkey_vars, parse_vars, rec_call, server_vars,
                      notify_vars, extra_vars>>
non_hotkey_vars == <<session_vars, parse_vars, rec_call, server_vars,
                     notify_vars, extra_vars>>
non_parse_vars == <<session_vars, hotkey_vars, rec_call, server_vars,
                    notify_vars, extra_vars>>

vars == <<session_vars, hotkey_vars, parse_vars, rec_call, server_vars,
          notify_vars, extra_vars>>

----------------------------------------------------------------------------
(* Bounds of the model *)

MaxTicks == 6      \* the clock stops after MaxTicks steps of TickMs
MaxRecent == 3     \* toggle calls made within one debounce window
MaxFrames == 1     \* audio blocks captured by one recording

----------------------------------------------------------------------------
(* Program constants *)

IDLE == "idle"
RECORDING == "recording"
PROCESSING == "processing"
Statuses == {IDLE, RECORDING, PROCESSING}

MinInterval == 500
MinAudioBytes == 1000

\* granularity of the model's clock: half the debounce interval, so that
\* calls less than, exactly, and more than MinInterval apart all occur
TickMs == MinInterval \div 2

\* a worker takes two passing toggles, MinInterval apart each
MaxWorkers == ((MaxTicks * TickMs) \div MinInterval + 1) \div 2

\* the tone names come from the server or from config.yaml
Tones == {"professionale", "informale"}
DefaultTone == "professionale"

\* the list tones of main(), stored in state.available_tones
TonesList == <<"professionale", "informale">>

ICON_COLORS == [s \in Statuses |->
                  CASE s = IDLE -> "#4CAF50"
                    [] s = RECORDING -> "#F44336"
                    [] s = PROCESSING -> "#FF9800"]

NoAudio == -1

\* Sizes of the payload recorder.stop() returns when at least one block was
\* captured.  The WAV encoding is done by the soundfile library; the model
\* draws the size from values around the client's threshold.
EncodedLens == {MinAudioBytes - 1, MinAudioBytes, MinAudioBytes + 1}

\* Outcomes of the requests.post call and of the handling of its response
Outcomes == {"ok", "non200", "connection_error", "timeout", "exception"}

\* mutant: every failure is reported with the same message
Notice_generic(outcome) == IF outcome = "ok" THEN "pasted" ELSE "error"

\* the notification emitted for each outcome
Notice(outcome) ==
    CASE outcome = "ok" -> "pasted"
      [] outcome = "non200" -> "server_error"
      [] outcome = "connection_error" -> "unreachable"
      [] outcome = "timeout" -> "timeout"
      [] outcome = "exception" -> "error"

----------------------------------------------------------------------------
\* no key / no key event
NoKey == "none"
NoEvent == [kind |-> "none", key |-> NoKey, before |-> {}, alone |-> FALSE]

\* an empty dict
EmptyDict == [k \in {} |-> 0]

\* HotkeyManager.__init__
HotkeyManager_init ==
    /\ pressed_keys = {}
    /\ callbacks = EmptyDict
    /\ tap_callbacks = EmptyDict
    /\ listener = "none"
    /\ other_key_pressed = FALSE
    /\ register_calls = <<>>
    /\ solitary = NoKey
    /\ event = NoEvent
    /\ invoked = {}

\* parse_hotkey is not being called
parse_idle ==
    /\ hotkey_str = <<>>
    /\ parts = <<>>
    /\ keys = {}
    /\ parse_pc = "idle"

\* AppState(), AudioRecorder(), last_toggle_time = {"t": 0}
SessionInit ==
    /\ status = IDLE
    /\ current_tone = DefaultTone
    /\ icon = ICON_COLORS[IDLE]
    /\ recording = FALSE
    /\ frames = 0
    /\ last_toggle_time = 0
    /\ clock = MinInterval
    /\ lpc = "idle"
    /\ audio_data = NoAudio
    /\ workers = <<>>
    /\ l_notice = "none"
    /\ lock = "free"
    /\ stream = 0
    /\ recent_calls = <<>>

\* no method of the recorder has been called
NoCall == [op |-> "none", was_recording |-> FALSE, frames_before |-> 0,
           stream_before |-> 0, result |-> 0]

\* no request / no response
NoRequest == [endpoint |-> "none", audio |-> 0, text |-> "", tone |-> "none"]
NoResponse == [code |-> 0, detail |-> "none", clean_text |-> ""]

\* the server waits for a request
server_idle ==
    /\ srv_request = NoRequest
    /\ srv_pc = "idle"
    /\ srv_raw_text = ""
    /\ srv_calls = <<>>
    /\ srv_response = NoResponse

\* notify has not been called
notify_idle ==
    /\ senders = <<>>
    /\ console = {}

\* no thread is inside AudioRecorder.stop()
NoStop == [pc |-> "idle", captured |-> 0, restarted |-> FALSE,
           raised |-> FALSE, blocks |-> 0]

\* the threads that take the locks: the key listener, which runs
\* toggle_recording, the process_audio threads, and the thread of the tray
\* menu, which runs the tone handlers
LockWorkers == {"worker1", "worker2"}
LockThreads == {"listener", "menu"} \cup LockWorkers

\* the initial values of the state of the compositions
extra_idle ==
    /\ hold_transitions = 0
    /\ color = [t \in 0..MaxWorkers |-> "none"]
    /\ available_tones = TonesList
    /\ launch_tone = [w \in 1..MaxWorkers |-> "none"]
    /\ stopper = NoStop
    /\ rec_lock = "free"
    /\ tpc = [t \in LockThreads |->
                 IF t \in LockWorkers THEN "none" ELSE "idle"]

\* main() up to the construction of HotkeyManager
Init ==
    /\ SessionInit
    /\ HotkeyManager_init
    /\ parse_idle
    /\ rec_call = NoCall
    /\ server_idle
    /\ notify_idle
    /\ extra_idle

----------------------------------------------------------------------------
(* Environment *)

\* the calls of log that are less than MinInterval before time now
Recent(log, now) == SelectSeq(log, LAMBDA c : now - c[1] < MinInterval)

Tick ==
    /\ clock < MinInterval + MaxTicks * TickMs
    /\ clock' = clock + TickMs
    /\ recent_calls' = Recent(recent_calls, clock')
    /\ UNCHANGED <<status, current_tone, icon, recording, frames,
                   last_toggle_time, lpc, audio_data, workers, l_notice>>
    /\ UNCHANGED non_session_vars
    /\ UNCHANGED <<lock, stream>>

\* AudioRecorder._audio_callback, called by the input stream for each block
audio_callback ==
    /\ recording
    /\ frames < MaxFrames
    /\ frames' = frames + 1
    /\ UNCHANGED <<status, current_tone, icon, recording, last_toggle_time,
                   clock, lpc, audio_data, workers, l_notice,
                   recent_calls>>
    /\ UNCHANGED non_session_vars
    /\ UNCHANGED <<lock, stream>>

\* AppState.set_status and AppState.set_tone: "with self._lock:" around one
\* assignment.  The lock is taken, the field written and the lock released in
\* one step: the block holds no other statement, and no thread takes the
\* lock while it holds it
set_status(s) ==
    /\ lock = "free"
    /\ status' = s
    /\ lock' = "free"

set_tone(t) ==
    /\ lock = "free"
    /\ current_tone' = t
    /\ lock' = "free"

\* update_tray_icon: reads state.status (no lock) and replaces the icon
update_tray_icon == icon' = ICON_COLORS[status]

\* mutant: changing the tone brings the session back to Idle
tone_handler_resets(t) ==
    /\ set_tone(t)
    /\ status' = IDLE
    /\ UNCHANGED <<icon, recording, frames, last_toggle_time, clock,
                   lpc, audio_data, workers, l_notice, recent_calls>>
    /\ UNCHANGED non_session_vars
    /\ UNCHANGED stream

\* handler of a tone item of the tray menu, on the UI thread (its notify and
\* its rebuilt menu are not part of the state)
tone_handler(t) ==
    /\ set_tone(t)
    /\ UNCHANGED <<status, icon, recording, frames, last_toggle_time, clock,
                   lpc, audio_data, workers, l_notice, recent_calls>>
    /\ UNCHANGED non_session_vars
    /\ UNCHANGED stream

----------------------------------------------------------------------------
(* AudioRecorder *)

\* mutant: start without the test of the flag
recorder_start_again ==
    /\ frames' = 0
    /\ recording' = TRUE
    /\ stream' = stream + 1

\* AudioRecorder.start: no-op when already recording, else empties the frame
\* list and opens the stream
recorder_start ==
    IF recording
    THEN UNCHANGED <<recording, frames, stream>>
    ELSE /\ frames' = 0
         /\ recording' = TRUE
         /\ stream' = stream + 1

\* mutant: the frames of the last recording are encoded again
StopPayloads_stale ==
    IF frames = 0 THEN {0} ELSE EncodedLens

\* the payloads AudioRecorder.stop can return in the current state
StopPayloads ==
    IF ~recording \/ frames = 0 THEN {0} ELSE EncodedLens

\* AudioRecorder.stop: no-op when not recording, else clears the flag and
\* closes the stream; the frame list is kept
recorder_stop ==
    IF ~recording
    THEN UNCHANGED <<recording, frames, stream>>
    ELSE /\ recording' = FALSE
         /\ stream' = IF stream > 0 THEN stream - 1 ELSE stream
         /\ UNCHANGED frames

----------------------------------------------------------------------------
(* toggle_recording, on the listener thread *)

\* mutant: the interval itself is still suppressed
Debounced_inclusive(now, last) == now - last <= MinInterval

\* the debounce test of toggle_recording
Debounced(now, last) == now - last < MinInterval

\* mutant: the status test is missing
IgnoreToggle_never(s) == FALSE

\* the test that ignores a toggle while a capture is being processed
IgnoreToggle(s) == s = PROCESSING

\* mutant: every payload is forwarded
TooShort_never(n) == FALSE

\* mutant: a payload one byte under the threshold is accepted
TooShort_below(n) == n < MinAudioBytes - 1

\* mutant: a payload of exactly the threshold is dropped
TooShort_inclusive(n) == n <= MinAudioBytes

\* the minimum-size test on the captured payload
TooShort(n) == n < MinAudioBytes

\* mutant: the timestamp is stored before the debounce test
NextToggleTime_always(now, last) == now

\* the value of last_toggle_time["t"] after a call at time now
NextToggleTime(now, last) == IF Debounced(now, last) THEN last ELSE now

\* entry: debounce, then the status test, then the choice between start and stop
toggle_recording_entry ==
    /\ lpc = "idle"
    /\ last_toggle_time' = NextToggleTime(clock, last_toggle_time)
    /\ IF Debounced(clock, last_toggle_time)
       THEN UNCHANGED lpc
       ELSE lpc' = IF IgnoreToggle(status) THEN "idle"
                   ELSE IF ~recording THEN "start" ELSE "stop"
    /\ UNCHANGED <<status, current_tone, icon, recording, frames, clock,
                   audio_data, workers, l_notice>>
    /\ UNCHANGED <<lock, stream>>

\* a call of toggle_recording made with the key listener left out of the picture
toggle_recording ==
    /\ toggle_recording_entry
    /\ UNCHANGED non_session_vars

\* a call that is not recorded in the history
toggle_unlogged ==
    /\ toggle_recording
    /\ UNCHANGED recent_calls

\* a call recorded in the history, with the verdict of the gate as observed
\* from outside: the call passed if it moved the timestamp to its own time
toggle_logged ==
    /\ Len(recent_calls) < MaxRecent
    /\ toggle_recording
    /\ LET passed == last_toggle_time' # last_toggle_time
       IN  recent_calls' =
               Append(recent_calls,
                      <<clock, passed, IF passed THEN status ELSE "none">>)

\* recorder.start(); state.set_status(RECORDING)
toggle_start ==
    /\ lpc = "start"
    /\ recorder_start
    /\ set_status(RECORDING)
    /\ lpc' = "start_tray"
    /\ UNCHANGED <<current_tone, icon, last_toggle_time, clock, audio_data,
                   workers, l_notice, recent_calls>>
    /\ UNCHANGED non_session_vars

\* update_tray_icon(...); notify("Recording started...")
toggle_start_tray ==
    /\ lpc = "start_tray"
    /\ update_tray_icon
    /\ l_notice' = "recording_started"
    /\ lpc' = "idle"
    /\ UNCHANGED <<status, current_tone, recording, frames, last_toggle_time,
                   clock, audio_data, workers, recent_calls>>
    /\ UNCHANGED non_session_vars
    /\ UNCHANGED <<lock, stream>>

\* audio_data = recorder.stop()
toggle_stop ==
    /\ lpc = "stop"
    /\ \E n \in StopPayloads : audio_data' = n
    /\ recorder_stop
    /\ lpc' = "stopped"
    /\ UNCHANGED <<status, current_tone, icon, last_toggle_time, clock,
                   workers, l_notice, recent_calls>>
    /\ UNCHANGED non_session_vars
    /\ UNCHANGED lock

\* len(audio_data) < 1000: notify("too short"); state.set_status(IDLE)
toggle_too_short ==
    /\ lpc = "stopped"
    /\ TooShort(audio_data)
    /\ l_notice' = "too_short"
    /\ set_status(IDLE)
    /\ audio_data' = NoAudio
    /\ lpc' = "short_tray"
    /\ UNCHANGED <<current_tone, icon, recording, frames, last_toggle_time,
                   clock, workers, recent_calls>>
    /\ UNCHANGED non_session_vars
    /\ UNCHANGED stream

\* update_tray_icon(...); return
toggle_short_tray ==
    /\ lpc = "short_tray"
    /\ update_tray_icon
    /\ lpc' = "idle"
    /\ UNCHANGED <<status, current_tone, recording, frames, last_toggle_time,
                   clock, audio_data, workers, l_notice,
                   recent_calls>>
    /\ UNCHANGED non_session_vars
    /\ UNCHANGED <<lock, stream>>

\* a thread's frame: its position, its audio_bytes argument, the tone read
\* for the request, the outcome of the call, its last notify(...) message, the
\* number of requests.post calls it has made and the number of notifications
\* it has emitted for the outcome of the call
NewWorker(n) ==
    [pc |-> "started", audio |-> n, tone |-> "none", outcome |-> "none",
     notice |-> "none", calls |-> 0, notes |-> 0]

\* the frame of a thread that has ended
Ended ==
    [pc |-> "done", audio |-> NoAudio, tone |-> "none", outcome |-> "none",
     notice |-> "none", calls |-> 0, notes |-> 0]

\* threading.Thread(target=process_audio, args=(audio_data, ...)).start()
toggle_spawn_thread ==
    /\ lpc = "stopped"
    /\ ~TooShort(audio_data)
    /\ workers' = Append(workers, NewWorker(audio_data))
    /\ audio_data' = NoAudio
    /\ lpc' = "idle"
    /\ UNCHANGED <<status, current_tone, icon, recording, frames,
                   last_toggle_time, clock, l_notice, recent_calls>>
    /\ UNCHANGED <<lock, stream>>

\* the start of a thread, with no record of the tone selected at that moment
toggle_spawn ==
    /\ toggle_spawn_thread
    /\ UNCHANGED non_session_vars

----------------------------------------------------------------------------
(* process_audio, one thread per element of workers *)

Alive(w) == workers[w].pc # "done"

AliveWorkers == {w \in DOMAIN workers : Alive(w)}

At(w, pc) == w \in DOMAIN workers /\ workers[w].pc = pc

Goto(w, pc) == workers' = [workers EXCEPT ![w].pc = pc]

\* mutant: the lock taken for the status write is kept by the thread
process_audio_begin_holds(w) ==
    /\ At(w, "started")
    /\ lock = "free"
    /\ status' = PROCESSING
    /\ lock' = "worker"
    /\ Goto(w, "tray")
    /\ UNCHANGED <<current_tone, icon, recording, frames, last_toggle_time,
                   clock, lpc, audio_data, l_notice, recent_calls>>
    /\ UNCHANGED non_session_vars
    /\ UNCHANGED stream

\* state.set_status(PROCESSING)
process_audio_begin(w) ==
    /\ At(w, "started")
    /\ set_status(PROCESSING)
    /\ Goto(w, "tray")
    /\ UNCHANGED <<current_tone, icon, recording, frames, last_toggle_time,
                   clock, lpc, audio_data, l_notice, recent_calls>>
    /\ UNCHANGED non_session_vars
    /\ UNCHANGED stream

\* update_tray_icon(...); notify("Processing...")
process_audio_tray(w) ==
    /\ At(w, "tray")
    /\ update_tray_icon
    /\ workers' = [workers EXCEPT ![w].pc = "post", ![w].notice = "processing"]
    /\ UNCHANGED <<status, current_tone, recording, frames, last_toggle_time,
                   clock, lpc, audio_data, l_notice, recent_calls>>
    /\ UNCHANGED non_session_vars
    /\ UNCHANGED <<lock, stream>>

\* requests.post(...) is called: its data argument reads state.current_tone
process_audio_post(w) ==
    /\ At(w, "post")
    /\ workers' = [workers EXCEPT ![w].pc = "in_call", ![w].tone = current_tone,
                                  ![w].calls = @ + 1]
    /\ UNCHANGED <<status, current_tone, icon, recording, frames,
                   last_toggle_time, clock, lpc, audio_data, l_notice, recent_calls>>
    /\ UNCHANGED non_session_vars
    /\ UNCHANGED <<lock, stream>>

\* mutant: the return of the non-200 branch leaves without the cleanup
process_audio_response_return(w) ==
    /\ At(w, "in_call")
    /\ \E o \in Outcomes :
         workers' = [workers EXCEPT
                       ![w] = IF o = "non200" THEN Ended
                              ELSE [@ EXCEPT !.pc = "finally", !.outcome = o,
                                             !.notice = Notice(o),
                                             !.notes = @ + 1]]
    /\ UNCHANGED <<status, current_tone, icon, recording, frames,
                   last_toggle_time, clock, lpc, audio_data, l_notice,
                   recent_calls>>
    /\ UNCHANGED non_session_vars
    /\ UNCHANGED <<lock, stream>>

\* the call returns or raises; the response is handled and one notification
\* is emitted, by the try body or by an except clause
process_audio_response(w) ==
    /\ At(w, "in_call")
    /\ \E o \in Outcomes :
         workers' = [workers EXCEPT ![w].pc = "finally", ![w].outcome = o,
                                    ![w].notice = Notice(o),
                                    ![w].notes = @ + 1]
    /\ UNCHANGED <<status, current_tone, icon, recording, frames,
                   last_toggle_time, clock, lpc, audio_data, l_notice, recent_calls>>
    /\ UNCHANGED non_session_vars
    /\ UNCHANGED <<lock, stream>>

\* mutant: the cleanup does not reset the status
process_audio_finally_keeps(w) ==
    /\ At(w, "finally")
    /\ Goto(w, "tray_idle")
    /\ UNCHANGED <<status, current_tone, icon, recording, frames,
                   last_toggle_time, clock, lpc, audio_data, l_notice,
                   recent_calls>>
    /\ UNCHANGED non_session_vars
    /\ UNCHANGED <<lock, stream>>

\* finally: state.set_status(IDLE)
process_audio_finally(w) ==
    /\ At(w, "finally")
    /\ set_status(IDLE)
    /\ Goto(w, "tray_idle")
    /\ UNCHANGED <<current_tone, icon, recording, frames, last_toggle_time,
                   clock, lpc, audio_data, l_notice, recent_calls>>
    /\ UNCHANGED non_session_vars
    /\ UNCHANGED stream

\* finally: update_tray_icon(...); the thread ends
process_audio_exit(w) ==
    /\ At(w, "tray_idle")
    /\ update_tray_icon
    /\ workers' = [workers EXCEPT ![w] = Ended]
    /\ UNCHANGED <<status, current_tone, recording, frames, last_toggle_time,
                   clock, lpc, audio_data, l_notice, recent_calls>>
    /\ UNCHANGED non_session_vars
    /\ UNCHANGED <<lock, stream>>

process_audio(w) ==
    \/ process_audio_begin(w)
    \/ process_audio_tray(w)
    \/ process_audio_post(w)
    \/ process_audio_response(w)
    \/ process_audio_finally(w)
    \/ process_audio_exit(w)

----------------------------------------------------------------------------
toggle_body ==
    \/ toggle_start
    \/ toggle_start_tray
    \/ toggle_stop
    \/ toggle_too_short
    \/ toggle_short_tray
    \/ toggle_spawn

Next ==
    \/ Tick
    \/ audio_callback
    \/ \E t \in Tones : tone_handler(t)
    \/ toggle_unlogged
    \/ toggle_body
    \/ \E w \in 1..MaxWorkers : process_audio(w)

Spec == Init /\ [][Next]_vars

\* the same program with the history of the toggle calls recorded
GateNext ==
    \/ Tick
    \/ audio_callback
    \/ \E t \in Tones : tone_handler(t)
    \/ toggle_logged
    \/ toggle_body
    \/ \E w \in 1..MaxWorkers : process_audio(w)

GateSpec == Init /\ [][GateNext]_vars

\* the operating system schedules every started thread, and the pipeline call
\* ends (requests.post has a 60 s timeout)
LiveSpec == Spec /\ \A w \in 1..MaxWorkers : WF_vars(process_audio(w))

----------------------------------------------------------------------------
(* Keys: pynput's keyboard.Key members and keyboard.KeyCode characters *)

MaxTokens == 3     \* tokens in one hotkey string
MaxRegs == 2       \* register calls before the listener starts
MaxHeld == 3       \* keys held down at the same time

\* members of keyboard.Key, by name
KeyMembers == {"ctrl_l", "ctrl_r", "shift_l", "shift_r", "alt_l", "alt_r",
               "cmd", "cmd_r", "space"}

\* keyboard.KeyCode.from_char(c); two KeyCodes are equal iff their characters
\* are equal, so "q" and "Q" are different keys
Chars == {"q", "Q"}

from_char(c) == c

Keys == KeyMembers \cup {from_char(c) : c \in Chars}

\* attributes of the class keyboard.Key that are not keys: a method, and a
\* list (which cannot be a member of a set)
ClassAttrs == {"mro", "_member_names_"}
Unhashable == {"_member_names_"}

AttributeError == "AttributeError"

\* getattr(keyboard.Key, name): a member, by its name or by its alias (cmd_l
\* is the same key as cmd), another attribute of the class, or AttributeError
Key_getattr(name) ==
    IF name \in KeyMembers THEN name
    ELSE IF name = "cmd_l" THEN "cmd"
    ELSE IF name \in ClassAttrs THEN name
    ELSE AttributeError

\* str.lower() of a token
lower(tok) ==
    CASE tok = "Q" -> "q"
      [] tok = "<Ctrl>" -> "<ctrl>"
      [] OTHER -> tok

\* the tokens a hotkey string is made of: hotkey_str.replace("+", " ").split()
\* cuts the string into them, and none has white space left to strip
Tokens == {"<ctrl>", "<Ctrl>", "<shift>", "<alt>", "<cmd>", "cmd_r", "space",
           "<space>", "q", "Q", "ctrl_r", "foo", "mro", "_member_names_"}

key_map ==
    [t \in {"<ctrl>", "<shift>", "<alt>", "<cmd>", "cmd_r", "space", "<space>"} |->
       CASE t = "<ctrl>" -> "ctrl_l"
         [] t = "<shift>" -> "shift_l"
         [] t = "<alt>" -> "alt_l"
         [] t = "<cmd>" -> "cmd"
         [] t = "cmd_r" -> "cmd_r"
         [] t = "space" -> "space"
         [] t = "<space>" -> "space"]

\* len(part) == 1
OneChar(part) == part \in Chars

\* one iteration of the loop of parse_hotkey over part, with keys = ks: the
\* new value of keys, or the exception that leaves the function
ParsePart(part, ks) ==
    IF part \in DOMAIN key_map
    THEN [raised |-> FALSE, keys |-> ks \cup {key_map[part]}]
    ELSE IF OneChar(part)
    THEN [raised |-> FALSE, keys |-> ks \cup {from_char(part)}]
    ELSE LET v == Key_getattr(part)
         IN  IF v = AttributeError THEN [raised |-> FALSE, keys |-> ks]
             ELSE IF v \in Unhashable THEN [raised |-> TRUE, keys |-> ks]
             ELSE [raised |-> FALSE, keys |-> ks \cup {v}]

RECURSIVE ParseParts(_, _)
ParseParts(ps, ks) ==
    IF ps = <<>> THEN [raised |-> FALSE, keys |-> ks]
    ELSE LET r == ParsePart(Head(ps), ks)
         IN  IF r.raised THEN r ELSE ParseParts(Tail(ps), r.keys)

\* parts = hotkey_str.lower().replace("+", " ").split()
split_lower(str) == [i \in 1..Len(str) |-> lower(str[i])]

\* parse_hotkey(hotkey_str): the set it returns, or raised
parse_hotkey(str) == ParseParts(split_lower(str), {})

----------------------------------------------------------------------------
(* parse_hotkey, one loop iteration per step *)

RECURSIVE TokenSeqs(_)
TokenSeqs(n) ==
    IF n = 0 THEN {<<>>}
    ELSE LET shorter == TokenSeqs(n - 1)
         IN  shorter \cup {Append(s, t) : s \in {x \in shorter : Len(x) = n - 1},
                                           t \in Tokens}

HotkeyStrs == TokenSeqs(MaxTokens)

\* parse_hotkey is called with some hotkey string
ParseInit ==
    /\ SessionInit
    /\ HotkeyManager_init
    /\ rec_call = NoCall
    /\ server_idle
    /\ notify_idle
    /\ extra_idle
    /\ hotkey_str \in HotkeyStrs
    /\ parts = <<>>
    /\ keys = {}
    /\ parse_pc = "called"

parse_split ==
    /\ parse_pc = "called"
    /\ parts' = split_lower(hotkey_str)
    /\ keys' = {}
    /\ parse_pc' = "loop"
    /\ UNCHANGED <<hotkey_str, non_parse_vars>>

parse_part ==
    /\ parse_pc = "loop"
    /\ parts # <<>>
    /\ LET r == ParsePart(Head(parts), keys)
       IN  /\ keys' = r.keys
           /\ IF r.raised
              THEN parse_pc' = "raised" /\ UNCHANGED parts
              ELSE parse_pc' = "loop" /\ parts' = Tail(parts)
    /\ UNCHANGED <<hotkey_str, non_parse_vars>>

parse_return ==
    /\ parse_pc = "loop"
    /\ parts = <<>>
    /\ parse_pc' = "returned"
    /\ UNCHANGED <<hotkey_str, parts, keys, non_parse_vars>>

ParseNext ==
    \/ parse_split
    \/ parse_part
    \/ parse_return

ParseSpec == ParseInit /\ [][ParseNext]_vars

----------------------------------------------------------------------------
(* HotkeyManager *)

\* the hotkey strings of the register calls: the default quit combo of
\* main(), single keys, a combo with the right command key, a combo written
\* in upper case, and a string with no key in it
RegStrings == {<<"<ctrl>", "<shift>", "q">>,
               <<"cmd_r">>,
               <<"<ctrl>">>,
               <<"cmd_r", "q">>,
               <<"<Ctrl>", "Q">>,
               <<"foo">>}

\* the keys the keyboard listener delivers
EventKeys == {"ctrl_l", "ctrl_r", "shift_l", "cmd_r", "q", "Q"}

\* mutant: a dict that keeps the first value stored under a key
Store_first(d, k, v) ==
    [x \in DOMAIN d \cup {k} |-> IF x \in DOMAIN d THEN d[x] ELSE v]

\* d[k] = v
Store(d, k, v) ==
    [x \in DOMAIN d \cup {k} |-> IF x = k THEN v ELSE d[x]]

\* HotkeyManager.register(hotkey_str, callback); the callback of the n-th
\* call is named n
register(str) ==
    /\ listener = "none"
    /\ Len(register_calls) < MaxRegs
    /\ LET r == parse_hotkey(str)
           callback == Len(register_calls) + 1
       IN  /\ ~r.raised
           /\ IF Cardinality(r.keys) = 1
              THEN /\ tap_callbacks' =
                          Store(tap_callbacks, CHOOSE k \in r.keys : TRUE, callback)
                   /\ UNCHANGED callbacks
              ELSE /\ callbacks' = Store(callbacks, r.keys, callback)
                   /\ UNCHANGED tap_callbacks
    /\ register_calls' = Append(register_calls, str)
    /\ UNCHANGED <<pressed_keys, other_key_pressed, listener, solitary, event,
                   invoked, non_hotkey_vars>>

\* HotkeyManager.start()
start ==
    /\ listener = "none"
    /\ listener' = "running"
    /\ UNCHANGED <<pressed_keys, callbacks, tap_callbacks, other_key_pressed,
                   register_calls, solitary, event, invoked, non_hotkey_vars>>

\* k.name.endswith('_r'), for the keys that have a name
RightNames == {"ctrl_r", "shift_r", "alt_r", "cmd_r"}

\* k.name.replace('_r', '_l')
replace_r_l(name) ==
    CASE name = "ctrl_r" -> "ctrl_l"
      [] name = "shift_r" -> "shift_l"
      [] name = "alt_r" -> "alt_l"
      [] name = "cmd_r" -> "cmd_l"
      [] OTHER -> name

\* what the loop of _on_press adds to normalized for the held key k
normalize_key(k) ==
    IF k \in KeyMembers /\ k \in RightNames
    THEN LET v == Key_getattr(replace_r_l(k))
         IN  IF v = AttributeError THEN k ELSE v
    ELSE k

\* mutant: the held keys are compared as they are
normalized_raw(held) == held

\* the set normalized built by _on_press from _pressed_keys
normalized(held) == {normalize_key(k) : k \in held}

\* mutant: a combo matches as soon as one of its keys is held
Matching_overlap(cbs, frozen) == {combo \in DOMAIN cbs : combo \cap frozen # {}}

\* the combos whose callback _on_press invokes
Matching(cbs, frozen) == {combo \in DOMAIN cbs : combo \subseteq frozen}

\* the record of one invocation of a callback
ComboCall(combo) == [kind |-> "combo", keys |-> combo, cb |-> callbacks[combo]]
TapCall(key) == [kind |-> "tap", keys |-> {key}, cb |-> tap_callbacks[key]]

\* mutant: a combo is invoked only by the press that completes it
on_press_edge(key) ==
    /\ listener = "running"
    /\ key \in pressed_keys \/ Cardinality(pressed_keys) < MaxHeld
    /\ pressed_keys' = pressed_keys \cup {key}
    /\ other_key_pressed' =
          IF key \notin DOMAIN tap_callbacks THEN TRUE ELSE other_key_pressed
    /\ invoked' = {ComboCall(combo) :
                      combo \in Matching(callbacks, normalized(pressed_keys'))
                                 \ Matching(callbacks, normalized(pressed_keys))}
    /\ event' = [kind |-> "press", key |-> key, before |-> pressed_keys,
                 alone |-> FALSE]
    /\ solitary' = IF key \notin pressed_keys \/ solitary = key THEN key
                   ELSE NoKey
    /\ UNCHANGED <<callbacks, tap_callbacks, listener, register_calls,
                   non_hotkey_vars>>

\* HotkeyManager._on_press(key), called by the listener for a key that goes
\* down or repeats while it is held
on_press_keys(key) ==
    /\ listener = "running"
    /\ key \in pressed_keys \/ Cardinality(pressed_keys) < MaxHeld
    /\ pressed_keys' = pressed_keys \cup {key}
    /\ other_key_pressed' =
          IF key \notin DOMAIN tap_callbacks THEN TRUE ELSE other_key_pressed
    /\ invoked' = {ComboCall(combo) :
                      combo \in Matching(callbacks, normalized(pressed_keys'))}
    /\ event' = [kind |-> "press", key |-> key, before |-> pressed_keys,
                 alone |-> FALSE]
    /\ solitary' = IF key \notin pressed_keys \/ solitary = key THEN key
                   ELSE NoKey
    /\ UNCHANGED <<callbacks, tap_callbacks, listener, register_calls>>

\* a press event whose callbacks are left out of the picture
on_press(key) ==
    /\ on_press_keys(key)
    /\ UNCHANGED non_hotkey_vars

\* HotkeyManager._on_release(key), called by the listener for a held key that
\* goes up
on_release_keys(key) ==
    /\ listener = "running"
    /\ key \in pressed_keys
    /\ invoked' = IF key \in DOMAIN tap_callbacks /\ ~other_key_pressed
                  THEN {TapCall(key)} ELSE {}
    /\ pressed_keys' = pressed_keys \ {key}
    /\ other_key_pressed' =
          IF pressed_keys' = {} THEN FALSE ELSE other_key_pressed
    /\ event' = [kind |-> "release", key |-> key, before |-> pressed_keys,
                 alone |-> solitary = key]
    /\ solitary' = IF solitary = key THEN NoKey ELSE solitary
    /\ UNCHANGED <<callbacks, tap_callbacks, listener, register_calls>>

\* a release event whose callbacks are left out of the picture
on_release(key) ==
    /\ on_release_keys(key)
    /\ UNCHANGED non_hotkey_vars

HotkeyNext ==
    \/ \E str \in RegStrings : register(str)
    \/ start
    \/ \E key \in EventKeys : on_press(key)
    \/ \E key \in EventKeys : on_release(key)

\* main() registers the hotkeys and starts the listener, which then calls
\* _on_press and _on_release for every key event
HotkeySpec == Init /\ [][HotkeyNext]_vars

----------------------------------------------------------------------------
(* AudioRecorder, its methods called in any order *)

MaxBlocks == 8     \* audio blocks appended to one frame list

\* the record of a call made in the current state, with its result
Call(op, result) ==
    [op |-> op, was_recording |-> recording, frames_before |-> frames,
     stream_before |-> stream, result |-> result]

\* what the steps of the recorder leave unchanged
non_recorder_vars ==
    <<status, current_tone, icon, last_toggle_time, clock, lpc, audio_data,
      workers, l_notice, lock, recent_calls, hotkey_vars, parse_vars,
      server_vars, notify_vars, extra_vars>>

\* AudioRecorder.start(): returns, or raises when sd.InputStream(...) or
\* stream.start() fails, after the flag has been set
AudioRecorder_start ==
    /\ \/ /\ recorder_start
          /\ rec_call' = Call("start", 0)
       \/ /\ ~recording
          /\ frames' = 0
          /\ recording' = TRUE
          /\ UNCHANGED stream
          /\ rec_call' = Call("start_raised", 0)
    /\ UNCHANGED non_recorder_vars

\* AudioRecorder.stop(), returning a payload of result bytes
AudioRecorder_stop ==
    /\ \E n \in StopPayloads : rec_call' = Call("stop", n)
    /\ recorder_stop
    /\ UNCHANGED non_recorder_vars

\* mutant: the block is appended whatever the flag
AudioRecorder_audio_callback_always ==
    /\ frames < MaxBlocks
    /\ frames' = frames + 1
    /\ rec_call' = Call("callback", 0)
    /\ UNCHANGED <<recording, stream>>
    /\ UNCHANGED non_recorder_vars

\* AudioRecorder._audio_callback(indata, ...): the stream delivers a block.
\* A block can arrive while the flag is off: stop() clears the flag before it
\* stops the stream
AudioRecorder_audio_callback ==
    /\ frames < MaxBlocks
    /\ frames' = IF recording THEN frames + 1 ELSE frames
    /\ rec_call' = Call("callback", 0)
    /\ UNCHANGED <<recording, stream>>
    /\ UNCHANGED non_recorder_vars

\* AudioRecorder.get_duration(): the length of the frame list, in blocks
AudioRecorder_get_duration ==
    /\ rec_call' = Call("get_duration", frames)
    /\ UNCHANGED <<recording, frames, stream>>
    /\ UNCHANGED non_recorder_vars

RecorderNext ==
    \/ AudioRecorder_start
    \/ AudioRecorder_stop
    \/ AudioRecorder_audio_callback
    \/ AudioRecorder_get_duration

RecorderSpec == Init /\ [][RecorderNext]_vars

----------------------------------------------------------------------------
(* Server endpoints /transcribe, /clean and /process *)

ServerMinAudioBytes == 1000

\* lengths of the uploaded audio, around the threshold of the server
AudioLens == {0, ServerMinAudioBytes - 1, ServerMinAudioBytes,
              ServerMinAudioBytes + 1}

\* texts: the raw_text of a /clean request, and the results of the transcriber
Texts == {"", "   ", "\n", "ciao", " ciao "}

\* str.strip()
strip(text) ==
    CASE text = "   " -> ""
      [] text = "\n" -> ""
      [] text = " ciao " -> "ciao"
      [] OTHER -> text

Requests ==
    [endpoint : {"transcribe"}, audio : AudioLens, text : {""}, tone : {"none"}]
    \cup [endpoint : {"clean"}, audio : {0}, text : Texts, tone : Tones]
    \cup [endpoint : {"process"}, audio : AudioLens, text : {""}, tone : Tones]

\* what the steps of the server leave unchanged
non_server_vars ==
    <<session_vars, hotkey_vars, parse_vars, rec_call, notify_vars,
      extra_vars>>

\* raise HTTPException(status_code, detail), or the response of a return
Respond(code, detail) ==
    /\ srv_response' = [code |-> code, detail |-> detail, clean_text |-> ""]
    /\ srv_pc' = "responded"

\* the texts returned by the cleaner
CleanTexts == {"Ciao.", "Ciao!"}

\* a request arrives and its endpoint function is called
server_receive ==
    /\ srv_pc \in {"idle", "responded"}
    /\ \E req \in Requests : srv_request' = req
    /\ srv_pc' = "validate"
    /\ srv_raw_text' = ""
    /\ srv_calls' = <<>>
    /\ srv_response' = NoResponse
    /\ UNCHANGED non_server_vars

\* mutant: a payload one byte under the threshold is accepted
ServerTooShort_below(n) == n < ServerMinAudioBytes - 1

\* len(audio_bytes) < 1000
ServerTooShort(n) == n < ServerMinAudioBytes

\* transcribe_audio and process_audio: the length test on the audio
server_check_audio ==
    /\ srv_pc = "validate"
    /\ srv_request.endpoint \in {"transcribe", "process"}
    /\ IF ServerTooShort(srv_request.audio)
       THEN Respond(400, "Audio too short")
       ELSE srv_pc' = "transcribe" /\ UNCHANGED srv_response
    /\ UNCHANGED <<srv_request, srv_raw_text, srv_calls>>
    /\ UNCHANGED non_server_vars

\* raw_text = transcriber.transcribe(audio_bytes), which returns a text or
\* raises, and the test of the text
server_transcribe ==
    /\ srv_pc = "transcribe"
    /\ srv_calls' = Append(srv_calls, "transcriber")
    /\ \/ /\ Respond(500, "Internal Server Error")
          /\ UNCHANGED srv_raw_text
       \/ \E text \in Texts :
            /\ srv_raw_text' = text
            /\ IF strip(text) = ""
               THEN Respond(422, "No text detected")
               ELSE IF srv_request.endpoint = "transcribe"
               THEN Respond(200, "ok")
               ELSE srv_pc' = "clean" /\ UNCHANGED srv_response
    /\ UNCHANGED srv_request
    /\ UNCHANGED non_server_vars

\* mutant: the text of a /clean request is not tested
BlankText_never(text) == FALSE

\* not request.raw_text.strip()
BlankText(text) == strip(text) = ""

\* clean_text: the test of the text of the request
server_check_text ==
    /\ srv_pc = "validate"
    /\ srv_request.endpoint = "clean"
    /\ IF BlankText(srv_request.text)
       THEN Respond(400, "Empty text") /\ UNCHANGED srv_raw_text
       ELSE /\ srv_pc' = "clean"
            /\ srv_raw_text' = srv_request.text
            /\ UNCHANGED srv_response
    /\ UNCHANGED <<srv_request, srv_calls>>
    /\ UNCHANGED non_server_vars

\* clean = cleaner.clean(...), which returns or raises, and the response
server_clean ==
    /\ srv_pc = "clean"
    /\ srv_calls' = Append(srv_calls, "cleaner")
    /\ \/ Respond(500, "Internal Server Error")
       \/ /\ \E clean \in CleanTexts :
               srv_response' = [code |-> 200, detail |-> "ok",
                                clean_text |-> clean]
          /\ srv_pc' = "responded"
    /\ UNCHANGED <<srv_request, srv_raw_text>>
    /\ UNCHANGED non_server_vars

ServerNext ==
    \/ server_receive
    \/ server_check_audio
    \/ server_transcribe
    \/ server_check_text
    \/ server_clean

ServerSpec == Init /\ [][ServerNext]_vars

----------------------------------------------------------------------------
(* notify(title, message) and its _send threads *)

MaxNotifies == 3   \* calls of notify

\* messages passed to notify, one of them with a double quote in it
Messages == {"Processing...", "Error: \"x\""}

\* message.replace('"', '\\"')
safe_message(message) ==
    IF message = "Error: \"x\"" THEN "Error: \\\"x\\\"" ELSE message

\* subprocess.run(["osascript", ...], capture_output=True, timeout=5): the
\* command ends with exit status 0, or with another exit status (check is not
\* set: run returns), or run raises TimeoutExpired after 5 s, or
\* FileNotFoundError when there is no osascript
RunOutcomes == {"exit_0", "exit_nonzero", "TimeoutExpired", "FileNotFoundError"}

\* the outcomes with which subprocess.run raises
RunRaises == {"TimeoutExpired", "FileNotFoundError"}

\* what the steps of notify leave unchanged
non_notify_vars ==
    <<session_vars, hotkey_vars, parse_vars, rec_call, server_vars,
      extra_vars>>

\* notify(title, message): starts a daemon thread that runs _send, and returns
notify(message) ==
    /\ Len(senders) < MaxNotifies
    /\ senders' = Append(senders, [pc |-> "started", message |-> message,
                                   command |-> "none", outcome |-> "none"])
    /\ UNCHANGED console
    /\ UNCHANGED non_notify_vars

\* _send: the strings are escaped and subprocess.run is called
send_run(i) ==
    /\ i \in DOMAIN senders
    /\ senders[i].pc = "started"
    /\ senders' = [senders EXCEPT
                     ![i].pc = "running",
                     ![i].command = safe_message(senders[i].message)]
    /\ UNCHANGED console
    /\ UNCHANGED non_notify_vars

\* _send: subprocess.run returns or raises; "except Exception" prints the
\* message on the console; the thread ends
send_end(i) ==
    /\ i \in DOMAIN senders
    /\ senders[i].pc = "running"
    /\ \E o \in RunOutcomes :
         /\ senders' = [senders EXCEPT ![i].pc = "done", ![i].outcome = o]
         /\ console' = IF o \in RunRaises
                       THEN console \cup {senders[i].message}
                       ELSE console
    /\ UNCHANGED non_notify_vars

NotifyNext ==
    \/ \E message \in Messages : notify(message)
    \/ \E i \in 1..MaxNotifies : send_run(i)
    \/ \E i \in 1..MaxNotifies : send_end(i)

NotifySpec == Init /\ [][NotifyNext]_vars

----------------------------------------------------------------------------
(* The key listener driving the session *)

\* the hotkeys main() registers when config.yaml names none
ToggleHotkey == <<"<ctrl>", "<shift>", "space">>
QuitHotkey == <<"<ctrl>", "<shift>", "q">>

\* toggle_recording is the callback of the first register call of main()
ToggleCallback == 1

MaxHoldTicks == 3  \* steps of TickMs the clock makes while keys are watched

\* the keys the user touches: those of the toggle gesture
HoldKeys == {"ctrl_l", "shift_l", "space"}

\* the toggle gesture is completely held
ToggleHeld(held) ==
    \E combo \in DOMAIN callbacks :
        callbacks[combo] = ToggleCallback /\ combo \subseteq normalized(held)

\* what the key events leave unchanged, the session and the keys apart
non_hold_vars == <<parse_vars, rec_call, server_vars, notify_vars, color,
                   available_tones, launch_tone, stopper, rec_lock, tpc>>

\* a press event: _on_press runs on the listener thread and calls
\* toggle_recording from its loop over the combos
listener_press(key) ==
    /\ lpc = "idle"
    /\ on_press_keys(key)
    /\ IF \E c \in invoked' : c.cb = ToggleCallback
       THEN /\ toggle_recording_entry
            /\ hold_transitions' =
                  IF lpc' \in {"start", "stop"} THEN hold_transitions + 1
                  ELSE hold_transitions
            /\ UNCHANGED recent_calls
       ELSE UNCHANGED <<session_vars, hold_transitions>>
    /\ UNCHANGED non_hold_vars

\* a release event: no tap key is registered, so no callback runs
listener_release(key) ==
    /\ lpc = "idle"
    /\ on_release_keys(key)
    /\ hold_transitions' =
          IF ToggleHeld(pressed_keys') THEN hold_transitions ELSE 0
    /\ UNCHANGED <<session_vars, non_hold_vars>>

HoldNext ==
    \/ Len(register_calls) = 0 /\ register(ToggleHotkey)
    \/ Len(register_calls) = 1 /\ register(QuitHotkey)
    \/ Len(register_calls) = 2 /\ start
    \/ clock < MinInterval + MaxHoldTicks * TickMs /\ Tick
    \/ audio_callback
    \/ \E t \in Tones : tone_handler(t)
    \/ \E key \in HoldKeys : listener_press(key)
    \/ \E key \in HoldKeys : listener_release(key)
    \/ toggle_body
    \/ \E w \in 1..MaxWorkers : process_audio(w)

\* main(): the hotkeys are registered, the listener is started, and from then
\* on toggle_recording is called by the key events only
HoldSpec == Init /\ [][HoldNext]_vars

----------------------------------------------------------------------------
(* update_tray_icon in two steps *)

\* color = ICON_COLORS.get(state.status, ...), by thread t
update_tray_icon_read(t) ==
    /\ color[t] = "none"
    /\ color' = [color EXCEPT ![t] = ICON_COLORS[status]]

\* icon.icon = create_icon_image(color), by thread t
update_tray_icon_write(t) ==
    /\ color[t] # "none"
    /\ icon' = color[t]
    /\ color' = [color EXCEPT ![t] = "none"]

\* what the steps of update_tray_icon leave unchanged, the session apart
non_tray_vars == <<hotkey_vars, parse_vars, rec_call, server_vars,
                   notify_vars, hold_transitions, available_tones,
                   launch_tone, stopper, rec_lock, tpc>>

\* the listener reads the status, after set_status(RECORDING) or
\* set_status(IDLE)
toggle_tray_read ==
    /\ lpc \in {"start_tray", "short_tray"}
    /\ update_tray_icon_read(0)
    /\ UNCHANGED <<session_vars, non_tray_vars>>

\* the listener replaces the icon; notify("Recording started...")
toggle_start_tray_write ==
    /\ lpc = "start_tray"
    /\ update_tray_icon_write(0)
    /\ l_notice' = "recording_started"
    /\ lpc' = "idle"
    /\ UNCHANGED <<status, current_tone, recording, frames, last_toggle_time,
                   clock, audio_data, workers, lock, stream, recent_calls>>
    /\ UNCHANGED non_tray_vars

\* the listener replaces the icon; return
toggle_short_tray_write ==
    /\ lpc = "short_tray"
    /\ update_tray_icon_write(0)
    /\ lpc' = "idle"
    /\ UNCHANGED <<status, current_tone, recording, frames, last_toggle_time,
                   clock, audio_data, workers, l_notice, lock, stream,
                   recent_calls>>
    /\ UNCHANGED non_tray_vars

\* thread w reads the status, after set_status(PROCESSING) or set_status(IDLE)
process_audio_tray_read(w) ==
    /\ At(w, "tray") \/ At(w, "tray_idle")
    /\ update_tray_icon_read(w)
    /\ UNCHANGED <<session_vars, non_tray_vars>>

\* thread w replaces the icon; notify("Processing...")
process_audio_tray_write(w) ==
    /\ At(w, "tray")
    /\ update_tray_icon_write(w)
    /\ workers' = [workers EXCEPT ![w].pc = "post", ![w].notice = "processing"]
    /\ UNCHANGED <<status, current_tone, recording, frames, last_toggle_time,
                   clock, lpc, audio_data, l_notice, lock, stream,
                   recent_calls>>
    /\ UNCHANGED non_tray_vars

\* thread w replaces the icon in its finally clause, and ends
process_audio_exit_write(w) ==
    /\ At(w, "tray_idle")
    /\ update_tray_icon_write(w)
    /\ workers' = [workers EXCEPT ![w] = Ended]
    /\ UNCHANGED <<status, current_tone, recording, frames, last_toggle_time,
                   clock, lpc, audio_data, l_notice, lock, stream,
                   recent_calls>>
    /\ UNCHANGED non_tray_vars

TrayNext ==
    \/ Tick
    \/ audio_callback
    \/ \E t \in Tones : tone_handler(t)
    \/ toggle_unlogged
    \/ toggle_start
    \/ toggle_stop
    \/ toggle_too_short
    \/ toggle_spawn
    \/ toggle_tray_read
    \/ toggle_start_tray_write
    \/ toggle_short_tray_write
    \/ \E w \in 1..MaxWorkers :
         \/ process_audio_begin(w)
         \/ process_audio_post(w)
         \/ process_audio_response(w)
         \/ process_audio_finally(w)
         \/ process_audio_tray_read(w)
         \/ process_audio_tray_write(w)
         \/ process_audio_exit_write(w)

\* the program with the two accesses of update_tray_icon in separate steps
TraySpec == Init /\ [][TrayNext]_vars

----------------------------------------------------------------------------
(* The tone of a request *)

\* the start of a thread, with the tone selected at that moment recorded
toggle_spawn_logged ==
    /\ toggle_spawn_thread
    /\ launch_tone' = [launch_tone EXCEPT ![Len(workers) + 1] = current_tone]
    /\ UNCHANGED <<hotkey_vars, parse_vars, rec_call, server_vars, notify_vars,
                   hold_transitions, color, available_tones, stopper,
                   rec_lock, tpc>>

ToneNext ==
    \/ Tick
    \/ audio_callback
    \/ \E t \in Tones : tone_handler(t)
    \/ toggle_unlogged
    \/ toggle_start
    \/ toggle_start_tray
    \/ toggle_stop
    \/ toggle_too_short
    \/ toggle_short_tray
    \/ toggle_spawn_logged
    \/ \E w \in 1..MaxWorkers : process_audio(w)

\* the program with the tone selected at each thread start recorded
ToneSpec == Init /\ [][ToneNext]_vars

----------------------------------------------------------------------------
(* AudioRecorder.stop() step by step, with start() called by other threads *)

\* what the steps below leave unchanged
non_race_vars ==
    <<status, current_tone, icon, last_toggle_time, clock, lpc, audio_data,
      workers, l_notice, lock, recent_calls, hotkey_vars, parse_vars,
      rec_call, server_vars, notify_vars, hold_transitions, color,
      available_tones, launch_tone, rec_lock, tpc>>

\* start() on another thread; its body runs under the recorder's lock, which
\* the stopper holds only inside AudioRecorder_stop_locked
AudioRecorder_start_other ==
    /\ recorder_start
    /\ stopper' = IF ~recording /\ stopper.pc \in {"unlocked", "encode"}
                  THEN [stopper EXCEPT !.restarted = TRUE]
                  ELSE stopper
    /\ UNCHANGED non_race_vars

\* the stream opened by start() delivers a block
AudioRecorder_block ==
    /\ frames < MaxBlocks
    /\ frames' = IF recording THEN frames + 1 ELSE frames
    /\ UNCHANGED <<recording, stream, stopper>>
    /\ UNCHANGED non_race_vars

\* stop(), the block "with self._lock:": returns b"" when not recording,
\* else clears the flag and closes the stream
AudioRecorder_stop_locked ==
    /\ stopper.pc = "idle"
    /\ recorder_stop
    /\ stopper' = IF ~recording
                  THEN [NoStop EXCEPT !.pc = "returned"]
                  ELSE [NoStop EXCEPT !.pc = "unlocked", !.captured = frames]
    /\ UNCHANGED non_race_vars

\* stop(), after the lock is released: if not self._frames: return b""
AudioRecorder_stop_test ==
    /\ stopper.pc = "unlocked"
    /\ stopper' = [stopper EXCEPT !.pc = IF frames = 0 THEN "returned"
                                         ELSE "encode"]
    /\ UNCHANGED <<recording, frames, stream>>
    /\ UNCHANGED non_race_vars

\* stop(): np.concatenate(self._frames, axis=0), which raises ValueError for
\* an empty list, and the WAV encoding of its result
AudioRecorder_stop_encode ==
    /\ stopper.pc = "encode"
    /\ stopper' = [stopper EXCEPT !.pc = "returned", !.raised = frames = 0,
                                  !.blocks = frames]
    /\ UNCHANGED <<recording, frames, stream>>
    /\ UNCHANGED non_race_vars

\* the caller has the result of stop()
AudioRecorder_stop_return ==
    /\ stopper.pc = "returned"
    /\ stopper' = NoStop
    /\ UNCHANGED <<recording, frames, stream>>
    /\ UNCHANGED non_race_vars

RaceNext ==
    \/ AudioRecorder_start_other
    \/ AudioRecorder_block
    \/ AudioRecorder_stop_locked
    \/ AudioRecorder_stop_test
    \/ AudioRecorder_stop_encode
    \/ AudioRecorder_stop_return

\* one thread calls stop() while other threads call start()
RaceSpec == Init /\ [][RaceNext]_vars

----------------------------------------------------------------------------
(* The two locks: AppState._lock and AudioRecorder._lock *)

\* what the steps below leave unchanged
non_lock_vars ==
    <<icon, last_toggle_time, clock, lpc, workers, l_notice, recent_calls,
      hotkey_vars, parse_vars, rec_call, server_vars, notify_vars,
      hold_transitions, color, available_tones, launch_tone, stopper>>

Move(t, pc) == tpc' = [tpc EXCEPT ![t] = pc]

\* toggle_recording is called (the debounce is left out: it takes no lock):
\* the status test, then the choice between recorder.start() and
\* recorder.stop(); a stop needs a thread slot for the worker it may start
toggle_enter ==
    /\ tpc["listener"] = "idle"
    /\ ~IgnoreToggle(status)
    /\ recording => \E w \in LockWorkers : tpc[w] = "none"
    /\ Move("listener", IF ~recording THEN "start_wait" ELSE "stop_wait")
    /\ UNCHANGED <<status, current_tone, recording, frames, stream,
                   audio_data, lock, rec_lock>>
    /\ UNCHANGED non_lock_vars

\* mutant: recorder.start() is called with the session lock held
recorder_lock_acquire_nested ==
    /\ tpc["listener"] \in {"start_wait", "stop_wait"}
    /\ rec_lock = "free"
    /\ lock = "free"
    /\ rec_lock' = "listener"
    /\ lock' = "listener"
    /\ Move("listener", IF tpc["listener"] = "start_wait" THEN "start_body"
                        ELSE "stop_body")
    /\ UNCHANGED <<status, current_tone, recording, frames, stream,
                   audio_data>>
    /\ UNCHANGED non_lock_vars

\* start() and stop(): "with self._lock:" is entered
recorder_lock_acquire ==
    /\ tpc["listener"] \in {"start_wait", "stop_wait"}
    /\ rec_lock = "free"
    /\ rec_lock' = "listener"
    /\ Move("listener", IF tpc["listener"] = "start_wait" THEN "start_body"
                        ELSE "stop_body")
    /\ UNCHANGED <<status, current_tone, recording, frames, stream,
                   audio_data, lock>>
    /\ UNCHANGED non_lock_vars

\* start(): the body of the with block; the lock is released at its end
recorder_start_locked ==
    /\ tpc["listener"] = "start_body"
    /\ recorder_start
    /\ rec_lock' = "free"
    /\ Move("listener", "set_recording_wait")
    /\ UNCHANGED <<status, current_tone, audio_data, lock>>
    /\ UNCHANGED non_lock_vars

\* stop(): the body of the with block; the lock is released at its end, and
\* the payload is built
recorder_stop_locked ==
    /\ tpc["listener"] = "stop_body"
    /\ \E n \in StopPayloads : audio_data' = n
    /\ recorder_stop
    /\ rec_lock' = "free"
    /\ Move("listener", "stopped")
    /\ UNCHANGED <<status, current_tone, lock>>
    /\ UNCHANGED non_lock_vars

\* toggle_recording after stop(): a short payload leads to set_status(IDLE),
\* any other to the start of a process_audio thread
toggle_after_stop ==
    /\ tpc["listener"] = "stopped"
    /\ IF TooShort(audio_data)
       THEN Move("listener", "set_idle_wait")
       ELSE \E w \in LockWorkers :
              /\ tpc[w] = "none"
              /\ tpc' = [tpc EXCEPT !["listener"] = "idle",
                                    ![w] = "set_processing_wait"]
    /\ audio_data' = NoAudio
    /\ UNCHANGED <<status, current_tone, recording, frames, stream, lock,
                   rec_lock>>
    /\ UNCHANGED non_lock_vars

\* the positions at which a thread waits for the session lock, and the write
\* it makes once it holds it
StateLockWaits ==
    {"set_recording_wait", "set_idle_wait", "set_processing_wait",
     "set_tone_wait"}

Locked(pc) ==
    CASE pc = "set_recording_wait" -> "set_recording"
      [] pc = "set_idle_wait" -> "set_idle"
      [] pc = "set_processing_wait" -> "set_processing"
      [] pc = "set_tone_wait" -> "set_tone"

StateLockHolds == {Locked(pc) : pc \in StateLockWaits}

\* set_status and set_tone: "with self._lock:" is entered by thread t
state_lock_acquire(t) ==
    /\ tpc[t] \in StateLockWaits
    /\ lock = "free"
    /\ lock' = t
    /\ Move(t, Locked(tpc[t]))
    /\ UNCHANGED <<status, current_tone, recording, frames, stream,
                   audio_data, rec_lock>>
    /\ UNCHANGED non_lock_vars

\* set_status: the assignment, and the release of the lock; the listener is
\* then back from toggle_recording, a worker goes on
set_status_locked(t) ==
    /\ tpc[t] \in {"set_recording", "set_idle", "set_processing"}
    /\ lock = t
    /\ status' = CASE tpc[t] = "set_recording" -> RECORDING
                   [] tpc[t] = "set_idle" -> IDLE
                   [] tpc[t] = "set_processing" -> PROCESSING
    /\ lock' = "free"
    /\ Move(t, IF t = "listener" THEN "idle"
               ELSE IF tpc[t] = "set_processing" THEN "in_call" ELSE "none")
    /\ UNCHANGED <<current_tone, recording, frames, stream, audio_data,
                   rec_lock>>
    /\ UNCHANGED non_lock_vars

\* process_audio: requests.post returns or raises, and the finally clause is
\* entered
process_audio_call_ends(w) ==
    /\ tpc[w] = "in_call"
    /\ Move(w, "set_idle_wait")
    /\ UNCHANGED <<status, current_tone, recording, frames, stream,
                   audio_data, lock, rec_lock>>
    /\ UNCHANGED non_lock_vars

\* a tone item of the tray menu is clicked: its handler calls set_tone
tone_handler_enter ==
    /\ tpc["menu"] = "idle"
    /\ Move("menu", "set_tone_wait")
    /\ UNCHANGED <<status, current_tone, recording, frames, stream,
                   audio_data, lock, rec_lock>>
    /\ UNCHANGED non_lock_vars

\* set_tone: the assignment, and the release of the lock
set_tone_locked ==
    /\ tpc["menu"] = "set_tone"
    /\ lock = "menu"
    /\ \E t \in Tones : current_tone' = t
    /\ lock' = "free"
    /\ Move("menu", "idle")
    /\ UNCHANGED <<status, recording, frames, stream, audio_data, rec_lock>>
    /\ UNCHANGED non_lock_vars

\* the stream delivers a block; _audio_callback takes no lock
audio_block ==
    /\ recording
    /\ frames < MaxFrames
    /\ frames' = frames + 1
    /\ UNCHANGED <<status, current_tone, recording, stream, audio_data, lock,
                   rec_lock, tpc>>
    /\ UNCHANGED non_lock_vars

\* the steps a thread makes by itself once it is inside a call
Proceeds(t) ==
    \/ t = "listener" /\ (recorder_start_locked \/ recorder_stop_locked
                             \/ toggle_after_stop)
    \/ set_status_locked(t)
    \/ t \in LockWorkers /\ process_audio_call_ends(t)
    \/ t = "menu" /\ set_tone_locked

\* the steps in which a thread takes a lock
Acquires(t) ==
    \/ t = "listener" /\ recorder_lock_acquire
    \/ state_lock_acquire(t)

LockNext ==
    \/ toggle_enter
    \/ tone_handler_enter
    \/ audio_block
    \/ \E t \in LockThreads : Proceeds(t) \/ Acquires(t)

\* Every thread inside a call is scheduled; a thread that waits for a lock
\* which is free again and again gets it: the critical sections are a few
\* statements long, and the other threads come back for the lock only after a
\* key event, a menu click or an HTTP call.
LockSpec ==
    /\ Init
    /\ [][LockNext]_vars
    /\ \A t \in LockThreads : WF_vars(Proceeds(t)) /\ SF_vars(Acquires(t))

----------------------------------------------------------------------------
(* Properties *)

WorkerIds == 1..MaxWorkers

\* a step that is a recorded call of toggle_recording (Tick also changes
\* recent_calls, together with the clock)
ToggleCalled == clock' = clock /\ recent_calls' # recent_calls

\* C1: every process_audio thread ends by writing status Idle, whatever the
\* outcome of the pipeline call: a thread reaches its end only through the
\* finally clause, whose step sets the status to Idle; and under fair
\* scheduling a started thread eventually performs that write.
C1_WorkerEndsIdle ==
    /\ [][\A w \in DOMAIN workers :
            /\ (workers[w].pc # "tray_idle" /\ workers'[w].pc = "tray_idle")
                 => (workers[w].pc = "finally" /\ status' = IDLE)
            /\ (workers[w].pc # "done" /\ workers'[w].pc = "done")
                 => workers[w].pc = "tray_idle"]_vars
    /\ \A w \in WorkerIds :
         At(w, "started") ~> (At(w, "tray_idle") /\ status = IDLE)

\* a thread has just written Idle after its call raised an exception
C1_Witness ==
    \E w \in DOMAIN workers :
        /\ At(w, "tray_idle")
        /\ workers[w].outcome = "exception"
        /\ status = IDLE

\* C2: whenever the status is Processing, some process_audio thread has not
\* ended yet.
C2_ProcessingHasWorker == status = PROCESSING => AliveWorkers # {}

\* two threads were started and both have ended
C2_Witness ==
    /\ Len(workers) = 2
    /\ AliveWorkers = {}
    /\ status # PROCESSING

\* C3 (as claimed): at most one process_audio thread is alive.
C3_AtMostOneWorker == Cardinality(AliveWorkers) <= 1

\* C4: a call of toggle_recording that finds the status Processing returns
\* at once: recorder, workers, status, tone, icon are unchanged and the
\* listener is back outside the callback.
C4_IgnoredWhileProcessing ==
    [][(ToggleCalled /\ status = PROCESSING)
         => /\ lpc' = "idle"
            /\ UNCHANGED <<status, current_tone, icon, recording, frames,
                           workers, audio_data>>]_vars

\* the last call passed the gate, found Processing and has returned
C4_Witness ==
    /\ recent_calls # <<>>
    /\ recent_calls[Len(recent_calls)] = <<clock, TRUE, PROCESSING>>
    /\ last_toggle_time = clock
    /\ lpc = "idle"
    /\ status = PROCESSING
    /\ ~recording
    /\ Cardinality(AliveWorkers) = 1

\* C5 (as claimed): the status changes only along Idle->Recording,
\* Recording->Processing, Recording->Idle and Processing->Idle.
LegalEdges ==
    {<<IDLE, RECORDING>>, <<RECORDING, PROCESSING>>, <<RECORDING, IDLE>>,
     <<PROCESSING, IDLE>>}

C5_OnlyLegalEdges ==
    [][status' # status => <<status, status'>> \in LegalEdges]_vars

\* C6 (as claimed): toggle_recording starts the recorder and writes Recording
\* only when the status is Idle at that moment.
C6_StartOnlyFromIdle ==
    [][(lpc = "start" /\ lpc' = "start_tray") => status = IDLE]_vars

\* C7: a stop whose payload is shorter than 1000 bytes sets the status to
\* Idle, emits the 'too short' notification and starts no thread; no thread
\* ever holds a payload shorter than 1000 bytes, so the pipeline is never
\* called with one.
C7_TooShortIgnored ==
    /\ [][(lpc = "stopped" /\ lpc' # "stopped" /\ audio_data < MinAudioBytes)
            => /\ status' = IDLE
               /\ l_notice' = "too_short"
               /\ workers' = workers]_vars
    /\ [](\A w \in AliveWorkers : workers[w].audio >= MinAudioBytes)

\* a capture with a block in it, encoded in fewer than 1000 bytes, was dropped
C7_Witness ==
    /\ lpc = "short_tray"
    /\ frames > 0
    /\ status = IDLE
    /\ l_notice = "too_short"

\* C8: a stop whose payload has 1000 bytes or more starts exactly one thread,
\* which carries that payload; threads are started nowhere else; the thread
\* sets the status to Processing and later to Idle.
C8_LongEnoughProcessed ==
    /\ [][(lpc = "stopped" /\ lpc' # "stopped" /\ audio_data >= MinAudioBytes)
            => workers' = Append(workers, NewWorker(audio_data))]_vars
    /\ [][workers' # workers /\ Len(workers') # Len(workers)
            => lpc = "stopped" /\ Len(workers') = Len(workers) + 1]_vars
    /\ \A w \in WorkerIds :
         /\ At(w, "started") ~> (At(w, "tray") /\ status = PROCESSING)
         /\ At(w, "tray") ~> (At(w, "tray_idle") /\ status = IDLE)

\* a thread carrying a payload of exactly 1000 bytes has written Idle
C8_Witness ==
    \E w \in DOMAIN workers :
        /\ At(w, "tray_idle")
        /\ workers[w].audio = MinAudioBytes
        /\ status = IDLE

Time(c) == c[1]

Passed(c) == c[2]

\* C9 (as claimed): of any two calls less than MinInterval apart exactly one
\* passes the gate.  (All calls in recent_calls are less than MinInterval
\* before the clock, hence less than MinInterval apart.)
C9_ExactlyOnePasses ==
    \A i, j \in DOMAIN recent_calls :
        (i < j /\ Time(recent_calls[j]) - Time(recent_calls[i]) < MinInterval)
            => (Passed(recent_calls[i]) # Passed(recent_calls[j]))

\* C9 (amended): of any two calls less than MinInterval apart at most one
\* passes the gate; a call passes if and only if it is made at least
\* MinInterval after the last call that passed.
C9_AtMostOnePasses ==
    /\ [](\A i, j \in DOMAIN recent_calls :
            (i < j /\ Time(recent_calls[j]) - Time(recent_calls[i]) < MinInterval)
                => ~(Passed(recent_calls[i]) /\ Passed(recent_calls[j])))
    /\ [][ToggleCalled
            => (Passed(recent_calls'[Len(recent_calls')])
                  <=> clock - last_toggle_time >= MinInterval)]_vars

\* the call that stops the first recording passes exactly MinInterval after
\* the call that started it, and a call made right after it is suppressed
C9_Witness ==
    /\ clock = 2 * MinInterval
    /\ Len(recent_calls) = 2
    /\ Time(recent_calls[1]) = clock /\ Passed(recent_calls[1])
    /\ Time(recent_calls[2]) = clock /\ ~Passed(recent_calls[2])
    /\ Len(workers) = 1

\* C10: a suppressed call changes nothing but the history: timestamp, status,
\* recorder, workers and the listener's position are unchanged; the timestamp
\* changes only in a call made at least MinInterval after it, to the time of
\* that call.
C10_SuppressedChangesNothing ==
    /\ [][(ToggleCalled /\ clock - last_toggle_time < MinInterval)
            => UNCHANGED <<last_toggle_time, status, current_tone, icon,
                           recording, frames, workers, lpc, audio_data>>]_vars
    /\ [][last_toggle_time' # last_toggle_time
            => /\ ToggleCalled
               /\ clock - last_toggle_time >= MinInterval
               /\ last_toggle_time' = clock]_vars

\* a call was suppressed during a recording, which goes on
C10_Witness ==
    /\ Len(recent_calls) = 2
    /\ Passed(recent_calls[1])
    /\ Time(recent_calls[2]) = clock /\ ~Passed(recent_calls[2])
    /\ last_toggle_time = Time(recent_calls[1])
    /\ recording
    /\ status = RECORDING
    /\ lpc = "idle"

----------------------------------------------------------------------------
(* Properties of the AudioRecorder *)

\* C24: start called while the recorder is recording changes nothing: no
\* second input stream is opened and the frames captured so far are kept; in
\* the state that follows any start the recorder is recording.
C24_StartIdempotent ==
    rec_call.op \in {"start", "start_raised"} =>
        /\ recording
        /\ stream <= 1
        /\ rec_call.was_recording =>
               /\ frames = rec_call.frames_before
               /\ stream = rec_call.stream_before

\* start was called while recording, with blocks already captured
C24_Witness ==
    /\ rec_call.op = "start"
    /\ rec_call.was_recording
    /\ rec_call.stream_before = 1
    /\ frames > 0

\* C25: stop returns the empty payload when the recorder is not recording,
\* and then changes nothing, and when it is recording with an empty frame
\* list; in the state that follows any stop the recorder is not recording.
C25_StopEmptyPayload ==
    rec_call.op = "stop" =>
        /\ ~recording
        /\ ~rec_call.was_recording =>
               /\ rec_call.result = 0
               /\ frames = rec_call.frames_before
               /\ stream = rec_call.stream_before
        /\ rec_call.frames_before = 0 => rec_call.result = 0

\* stop was called after the recording had already been stopped, its frames
\* still in the list
C25_Witness ==
    /\ rec_call.op = "stop"
    /\ ~rec_call.was_recording
    /\ rec_call.frames_before > 0
    /\ rec_call.result = 0

\* C26: the audio callback appends the block to the frame list exactly when
\* the recorder is recording; otherwise the list is unchanged.
C26_CallbackAppendsIffRecording ==
    rec_call.op = "callback" =>
        frames = rec_call.frames_before + IF rec_call.was_recording THEN 1 ELSE 0

\* a block was delivered after the recording had been stopped, the list
\* still holding the blocks of that recording
C26_Witness ==
    /\ rec_call.op = "callback"
    /\ ~rec_call.was_recording
    /\ frames > 0

\* C38: after a start() that raised while opening or starting the input
\* stream the recorder is not recording, and is_recording is true only while
\* an input stream exists.
C38_FailedStartNotRecording ==
    /\ rec_call.op = "start_raised" => ~recording
    /\ recording => stream > 0

----------------------------------------------------------------------------
(* Properties of the server *)

\* C27: a request with an audio payload under 1000 bytes to /transcribe or
\* /process is answered 400 "Audio too short", and a /clean request with an
\* empty or blank text is answered 400, in both cases without any call of the
\* transcriber or of the cleaner.
C27_RejectedBeforeBackend ==
    LET short == /\ srv_request.endpoint \in {"transcribe", "process"}
                 /\ srv_request.audio < 1000
        blank == /\ srv_request.endpoint = "clean"
                 /\ srv_request.text \in {"", "   ", "\n"}
    IN  /\ (short \/ blank) => srv_calls = <<>>
        /\ (short /\ srv_pc = "responded") =>
               /\ srv_response.code = 400
               /\ srv_response.detail = "Audio too short"
        /\ (blank /\ srv_pc = "responded") => srv_response.code = 400

\* a /process request one byte under the threshold has been answered
C27_Witness ==
    /\ srv_pc = "responded"
    /\ srv_request.endpoint = "process"
    /\ srv_request.audio = 999
    /\ srv_response.code = 400
    /\ srv_calls = <<>>

----------------------------------------------------------------------------
(* Properties of notify *)

\* C28: notify returns to its caller without waiting for the dispatch and
\* without raising, and when the notification command fails the _send thread
\* prints the message on the console instead.
C28_FailureFallsBackToConsole ==
    \A i \in DOMAIN senders :
        (senders[i].pc = "done" /\ senders[i].outcome # "exit_0") =>
            senders[i].message \in console

----------------------------------------------------------------------------
(* Properties of the HotkeyManager *)

\* the last key event was a press / a release
Pressed == event.kind = "press"
Released == event.kind = "release"

\* the callbacks invoked by the last key event for the combo / the tap key
ComboInvoked(combo) == {c \in invoked : c.kind = "combo" /\ c.keys = combo}
TapInvoked(key) == {c \in invoked : c.kind = "tap" /\ c.keys = {key}}

\* C11: the callback of a tap key is invoked at the release of that key only
\* if no other key, tap key or not, was pressed since the press of that key.
C11_TapOnlyWhenAlone ==
    \A k \in DOMAIN tap_callbacks :
        (Released /\ event.key = k /\ TapInvoked(k) # {}) => event.alone

\* C12: a combo callback is invoked by a key event only if the event is a
\* press after which every key of the combo is in the normalized held set, and
\* it is invoked by the press that brings the last missing key of the combo
\* into that set, whatever the order of the presses.
C12_ComboNeedsAllMembers ==
    \A combo \in DOMAIN callbacks :
        /\ ComboInvoked(combo) # {} =>
               Pressed /\ combo \subseteq normalized(pressed_keys)
        /\ ( /\ Pressed
             /\ combo \subseteq normalized(pressed_keys)
             /\ ~(combo \subseteq normalized(event.before)) )
           => ComboInvoked(combo) # {}

\* the default quit combo completed by its first-named key, pressed last
C12_Witness ==
    /\ Pressed
    /\ event.key = "ctrl_l"
    /\ event.before = {"shift_l", "q"}
    /\ ComboInvoked({"ctrl_l", "shift_l", "q"}) # {}

\* the last key event was a press that completed the combo: all its keys are
\* in the normalized held set after the press and were not all in it before
Completes(combo) ==
    /\ Pressed
    /\ combo \subseteq normalized(pressed_keys)
    /\ ~(combo \subseteq normalized(event.before))

\* C13: the callback of a combo (of two keys or more) is invoked exactly once
\* by a press that completes the combo, and not at all by a press that leaves
\* it incomplete or finds it already complete.
C13_OncePerCompletingPress ==
    \A combo \in DOMAIN callbacks :
        (Pressed /\ Cardinality(combo) >= 2) =>
            Cardinality(ComboInvoked(combo)) = IF Completes(combo) THEN 1 ELSE 0

\* the left variant of each right modifier key
LeftVariant ==
    [r \in {"ctrl_r", "shift_r", "alt_r", "cmd_r"} |->
       CASE r = "ctrl_r" -> "ctrl_l"
         [] r = "shift_r" -> "shift_l"
         [] r = "alt_r" -> "alt_l"
         [] r = "cmd_r" -> "cmd"]

\* C14: a combo registered with the left variant of a modifier is invoked by a
\* press after which the right variant is held instead of the left one,
\* together with the other keys of the combo.
C14_RightVariantFires ==
    \A combo \in DOMAIN callbacks :
        \A r \in DOMAIN LeftVariant :
            ( /\ Pressed
              /\ LeftVariant[r] \in combo
              /\ r \in pressed_keys
              /\ LeftVariant[r] \notin pressed_keys
              /\ combo \ {LeftVariant[r]} \subseteq pressed_keys )
            => ComboInvoked(combo) # {}

\* right control and q held, left control not: the combo <ctrl>+q fires
C14_Witness ==
    /\ Pressed
    /\ pressed_keys = {"ctrl_r", "q"}
    /\ ComboInvoked({"ctrl_l", "q"}) # {}

\* the keys named by the hotkey string of the i-th register call
NamedKeys(i) == parse_hotkey(register_calls[i]).keys

\* C15: a hotkey string that names two keys or more registers a combo that
\* the named keys satisfy: the press after which exactly those keys are held
\* invokes the callback registered for them.
C15_CombosSatisfiable ==
    \A i \in DOMAIN register_calls :
        ( /\ Cardinality(NamedKeys(i)) >= 2
          /\ Pressed
          /\ pressed_keys = NamedKeys(i)
          /\ event.before # pressed_keys )
        => ComboInvoked(NamedKeys(i)) # {}

\* C16: a tap registered under the left variant of a modifier is invoked when
\* the right variant is released after having been held alone, no other key
\* having been pressed since its press.
C16_RightVariantTaps ==
    \A r \in DOMAIN LeftVariant :
        ( /\ LeftVariant[r] \in DOMAIN tap_callbacks
          /\ Released
          /\ event.key = r
          /\ event.before = {r}
          /\ event.alone )
        => TapInvoked(LeftVariant[r]) # {}

\* the upper-case form of each lower-case character key
UpperCase == [c \in {"q"} |-> "Q"]

\* C17: a combo registered with a lower-case character is invoked by the press
\* that delivers the same character in upper case while the other keys of the
\* combo are held.
C17_CaseInsensitive ==
    \A combo \in DOMAIN callbacks :
        \A c \in DOMAIN UpperCase :
            ( /\ c \in combo
              /\ Pressed
              /\ event.key = UpperCase[c]
              /\ combo \ {c} \subseteq normalized(event.before) )
            => ComboInvoked(combo) # {}

\* the gesture registered by the i-th register call is a tap / a combo
IsTap(i) == \E k \in NamedKeys(i) : NamedKeys(i) = {k} /\ k \in DOMAIN tap_callbacks
IsCombo(i) == NamedKeys(i) \in DOMAIN callbacks

\* C18: register makes a tap of a string with exactly one key and a combo of a
\* string with two keys or more, and every registered combo has at least two
\* keys.
C18_ClassifiedBySize ==
    /\ \A i \in DOMAIN register_calls :
          /\ Cardinality(NamedKeys(i)) = 1 => IsTap(i)
          /\ Cardinality(NamedKeys(i)) >= 2 => IsCombo(i)
    /\ \A combo \in DOMAIN callbacks : Cardinality(combo) >= 2

\* the last register call whose hotkey string parses to the key-set ks
LastCallFor(ks) ==
    CHOOSE i \in DOMAIN register_calls :
        /\ NamedKeys(i) = ks
        /\ \A j \in DOMAIN register_calls : NamedKeys(j) = ks => j <= i

\* C19: a gesture's callback is the one of the last register call for its
\* key-set, only that callback is invoked for the key-set, and the gestures of
\* the other register calls stay registered.
C19_LaterRegistrationWins ==
    /\ \A combo \in DOMAIN callbacks : callbacks[combo] = LastCallFor(combo)
    /\ \A k \in DOMAIN tap_callbacks : tap_callbacks[k] = LastCallFor({k})
    /\ \A c \in invoked : c.cb = LastCallFor(c.keys)
    /\ \A i \in DOMAIN register_calls : IsTap(i) \/ IsCombo(i)

\* two register calls for one key-set, and the callback of the second invoked
C19_Witness ==
    /\ Len(register_calls) = 2
    /\ NamedKeys(1) = NamedKeys(2)
    /\ NamedKeys(1) # {}
    /\ \E c \in invoked : c.keys = NamedKeys(1) /\ c.cb = 2

\* C29: every press event, the repeat of a held key and the press of a key
\* outside the combo included, invokes once the callback of every combo whose
\* keys are all in the normalized held set.
C29_LevelTriggered ==
    \A combo \in DOMAIN callbacks :
        (Pressed /\ combo \subseteq normalized(pressed_keys)) =>
            Cardinality(ComboInvoked(combo)) = 1

\* a combo that was already complete is invoked again by the press of a key
\* that is not one of its keys
C29_Witness ==
    \E combo \in DOMAIN callbacks :
        /\ Cardinality(combo) >= 2
        /\ Pressed
        /\ combo \subseteq normalized(event.before)
        /\ normalize_key(event.key) \notin combo
        /\ ComboInvoked(combo) # {}

\* C30: the callback of a tap key is invoked at the release of that key
\* whenever no other key was pressed since the press of that key, also when
\* another key was already held at that press.
C30_TapDespiteHeldKey ==
    \A k \in DOMAIN tap_callbacks :
        (Released /\ event.key = k /\ event.alone) => TapInvoked(k) # {}

\* C37: the callback of a register call whose hotkey string names no key is
\* invoked by no key event.
C37_NoGestureWithoutKeys ==
    \A c \in invoked : NamedKeys(c.cb) # {}

----------------------------------------------------------------------------
(* Properties of parse_hotkey *)

\* the key a token denotes, or NoKey for a token that denotes none: a name of
\* key_map, a single character, or the name of a key of keyboard.Key
KeyOfToken(tok) ==
    LET part == lower(tok)
    IN  IF part \in DOMAIN key_map THEN key_map[part]
        ELSE IF part \in Chars THEN from_char(part)
        ELSE IF part \in KeyMembers THEN part
        ELSE IF part = "cmd_l" THEN "cmd"
        ELSE NoKey

\* C20: parse_hotkey never fails, and it returns exactly the keys of the
\* tokens that denote a key: a token that denotes none adds nothing and does
\* not stop the parsing of the tokens after it.
C20_ParseNeverFails ==
    /\ parse_pc # "raised"
    /\ parse_pc = "returned" =>
           keys = {KeyOfToken(hotkey_str[i]) : i \in DOMAIN hotkey_str} \ {NoKey}

----------------------------------------------------------------------------
(* Properties of the session lock, the worker's notifications *)

\* the listener thread has tested the status inside toggle_recording and has
\* not yet made the status write that follows the test
BetweenCheckAndWrite == lpc \in {"start", "stop", "stopped"}

\* C21: the accesses to the status are made under the session lock, so that
\* no status write of a worker thread falls between the status test of
\* toggle_recording and the status write that follows it.
C21_CheckAndWriteAtomic ==
    [][(BetweenCheckAndWrite /\ lpc' = lpc) => status' = status]_vars

Failures == Outcomes \ {"ok"}

\* the worker thread w has handled the outcome of its pipeline call
Handled(w) == At(w, "finally") \/ At(w, "tray_idle")

\* C23: for each kind of failure of the pipeline call the worker emits exactly
\* one notification for the outcome, with a message that no other kind of
\* failure has, and it makes the call exactly once.
C23_OneNoticePerFailure ==
    \A w \in DOMAIN workers :
        /\ workers[w].calls <= 1
        /\ (Handled(w) /\ workers[w].outcome \in Failures) =>
              /\ workers[w].calls = 1
              /\ workers[w].notes = 1
              /\ workers[w].notice = Notice(workers[w].outcome)
              /\ \A o \in Failures \ {workers[w].outcome} :
                     Notice(o) # workers[w].notice

\* a worker has handled a timeout of the call
C23_Witness ==
    \E w \in DOMAIN workers :
        /\ Handled(w)
        /\ workers[w].outcome = "timeout"
        /\ workers[w].notice = "timeout"

----------------------------------------------------------------------------
(* Properties of the listener driving the session *)

\* C31: while the keys of the toggle gesture stay held, with no release of a
\* member, at most one toggle_recording call goes on to start or to stop the
\* recording, however many press events arrive and however long the hold lasts.
C31_OneTransitionPerHold == hold_transitions <= 1

\* C32: whenever no toggle_recording call is in progress, the status is
\* Recording if and only if the recorder is recording.
C32_StatusAgreesWithRecorder ==
    lpc = "idle" => (status = RECORDING <=> recording)

\* the second half of C32 alone: with no toggle_recording call in progress, the
\* recorder is not recording while the status is Idle or Processing
C32_NoCaptureOutsideRecording ==
    (lpc = "idle" /\ recording) => status = RECORDING

\* a thread is between a set_status and the end of the update_tray_icon
\* that follows it
MidStatusUpdate ==
    \/ lpc \in {"start_tray", "short_tray"}
    \/ \E w \in DOMAIN workers : workers[w].pc \in {"tray", "tray_idle"}

\* C33: whenever no thread is between a set_status and the end of the
\* update_tray_icon that follows it, the colour of the tray icon is the
\* colour of the current status.
C33_TrayShowsStatus == ~MidStatusUpdate => icon = ICON_COLORS[status]

\* C34: a tone can be set in every status; a step that changes the current
\* tone leaves the status, the recorder and the list of available tones
\* unchanged; and no step changes the list of available tones.
C34_SetToneFrame ==
    /\ [](\A t \in Tones : ENABLED tone_handler(t))
    /\ [][/\ available_tones' = available_tones
          /\ current_tone' # current_tone =>
                 UNCHANGED <<status, recording, frames, stream>>]_vars

\* the tone has been changed, and a capture is being processed
C34_Witness ==
    /\ current_tone # DefaultTone
    /\ status = PROCESSING
    /\ \E w \in DOMAIN workers : workers[w].pc = "in_call"

\* C35: the tone sent with the request of a worker thread is the tone that
\* was selected when the thread was started.
C35_ToneOfLaunch ==
    \A w \in DOMAIN workers :
        workers[w].tone # "none" => workers[w].tone = launch_tone[w]

----------------------------------------------------------------------------
(* Properties of AudioRecorder.stop() under concurrent start() calls *)

\* C36: a call of stop() that found the recorder recording returns the blocks
\* that were in the frame list when it cleared the flag, whatever start()
\* calls other threads make before it returns.
C36_StopReturnsCapturedFrames ==
    stopper.pc = "returned" =>
        /\ ~stopper.raised
        /\ stopper.blocks = stopper.captured
        /\ stopper.blocks > 0 => ~stopper.restarted

----------------------------------------------------------------------------
(* Properties of the client and the server together *)

\* C39: the payload of every worker thread, which the thread posts to /process
\* as the file audio, passes the length check of the server: the request is not
\* answered with 400 "Audio too short".
C39_ForwardedNotTooShort ==
    \A w \in DOMAIN workers :
        workers[w].audio # NoAudio => ~ServerTooShort(workers[w].audio)

\* a payload of exactly the client's minimum size is in a request
C39_Witness ==
    \E w \in DOMAIN workers :
        workers[w].pc = "in_call" /\ workers[w].audio = MinAudioBytes

----------------------------------------------------------------------------
(* Properties of the two locks *)

\* thread t waits for a lock / holds a lock
WaitsForLock(t) ==
    tpc[t] \in StateLockWaits \cup {"start_wait", "stop_wait"}

HoldsLock(t) == lock = t \/ rec_lock = t

\* C40: no thread holds the session lock and the recorder lock together; a
\* thread that holds the session lock is at the assignment of set_status or
\* set_tone, and one that holds the recorder lock is in the with block of
\* start() or stop(); every thread that waits for a lock gets it, and every
\* call of toggle_recording returns.
C40_NoDeadlock ==
    /\ [](\A t \in LockThreads :
            /\ ~(lock = t /\ rec_lock = t)
            /\ lock = t => tpc[t] \in StateLockHolds
            /\ rec_lock = t => tpc[t] \in {"start_body", "stop_body"})
    /\ \A t \in LockThreads : WaitsForLock(t) ~> HoldsLock(t)
    /\ (tpc["listener"] # "idle") ~> (tpc["listener"] = "idle")

\* the listener waits for the session lock while a worker thread holds it
C40_Witness ==
    /\ tpc["listener"] \in StateLockWaits
    /\ \E w \in LockWorkers : lock = w
====
